---- MODULE Spec2Model ----
(***************************************************************************)
(* Model of the configuration container (configs/configs.py) and of the    *)
(* database wrapper (orm/database.py) of the cookiecutter-api template.     *)
(*                                                                         *)
(* Three specifications share the module:                                  *)
(*   Spec        Database.connect / create_db / drop_db                     *)
(*   SpecConfigs Configs.__init__ and Configs.configure_logging             *)
(*   SpecCrud    Database.create / create_many / read / update /            *)
(*               update_many / delete / delete_many over one Session        *)
(***************************************************************************)
EXTENDS Integers, Sequences, FiniteSets, TLC

VARIABLES
    \* ---- Database.connect (orm/database.py) ----
    cfgRetryCount,  \* configs.connect_retry_count
    cfgRetryDelay,  \* configs.connect_retry_delay
    engine,         \* self.engine: <<>> is None, <<c, k>> the engine made by attempt k of call c
    tables,         \* whether the schema objects exist in the database
    stack,          \* retry_count of every active connect frame, innermost last
    pos,            \* position of the innermost frame: idle, try, create_db, except, return
    budget,         \* the retry budget the outermost call resolved
    trace,          \* attempts and sleeps of the current outermost call, in order
    results,        \* how each concluded attempt of the current call ended
    caught,         \* the attempt whose exception the innermost frame holds (0: none)
    outcome,        \* none, running, returned, raised
    raisedErr,      \* the attempt whose exception reached the caller (0: none)
    calls,          \* outermost connect calls made so far
    succeeded,      \* whether some connect call has returned normally
    lastOp,         \* the last public method called: init, connect, create_db, drop_db
    \* ---- Configs (configs/configs.py) ----
    packageDirExists, \* whether package_dir exists on disk
    envFileExists,  \* whether {package_dir.parent}/.env exists
    dotEnv,         \* what that .env file holds: variable -> string or Undefined
    procEnv,        \* the process environment: variable -> string or Undefined
    ymlFile,        \* configs.yml on disk: missing, malformed, or the name of a document
    step,           \* the last step Configs.__init__ completed, or failed
    envInit,        \* whether the StarletteConfig object has been made
    fileValues,     \* its file_values: what it read from the .env file
    ymlOpened,      \* whether configs.yml has been opened
    ymlVals,        \* context.yml, scalar and mapping entries by key path
    logsPath,       \* path.logs once PathConfigs is built (path components), else <<>>
    hasHandlers,    \* 'handlers' in context.yml['logging']
    handlers,       \* context.yml['logging']['handlers'][key]['filename'], <<>> when it has none
    fields,         \* every resolved field of the five sub-configs
    built,          \* the sub-configs built, in order
    logsDirCreated, \* whether logs.mkdir(parents=True, exist_ok=True) has run
    loggingApplied, \* calls of logging.config.dictConfig
    afterFirst,     \* the handlers' filenames as the first configure_logging left them
    error,          \* the exception that ended construction ("" if none)
    failedAt,       \* the step that raised it ("" if none)
    \* ---- CRUD over one Session (orm/database.py) ----
    est,            \* each entity object's state in the session: transient, pending,
                    \* persistent, deleted (marked for deletion), detached (row deleted)
    mem,            \* each entity object's attributes in memory
    db,             \* the committed rows
    opName,         \* the last operation called
    opRaised,       \* whether it raised
    readResult,     \* what the last read returned
    nops            \* operations called so far

connVars == <<cfgRetryCount, cfgRetryDelay, engine, tables, stack, pos, budget,
              trace, results, caught, outcome, raisedErr, calls, succeeded,
              lastOp>>

cfgVars == <<packageDirExists, envFileExists, dotEnv, procEnv, ymlFile, step, envInit,
             fileValues, ymlOpened, ymlVals, logsPath, hasHandlers, handlers, fields,
             built, logsDirCreated, loggingApplied, afterFirst, error, failedAt>>

crudVars == <<est, mem, db, opName, opRaised, readResult, nops>>

vars == <<connVars, cfgVars, crudVars>>

\* ------------------------------------------------------------------ bounds
MaxRetry == 2
MaxDelay == 2
MaxCalls == 2
MaxLoggingRuns == 2
MaxLen == 2
MaxOps == 2

\* Nested connect frames the model follows when the budget never reaches zero.
MaxDepth == MaxRetry + 3

\* Retry budgets the configuration or the caller may give; the type is int.
RetryBudgets == (0 - 1)..MaxRetry
RetryDelays == 0..MaxDelay

None == <<>>
Some(x) == <<x>>

Last(s) == s[Len(s)]
ButLast(s) == SubSeq(s, 1, Len(s) - 1)

AttemptEv == [ev |-> "attempt", d |-> 0]
SleepEv(d) == [ev |-> "sleep", d |-> d]

RECURSIVE CountEv(_, _)
CountEv(s, ev) ==
    IF s = <<>> THEN 0
    ELSE (IF Last(s).ev = ev THEN 1 ELSE 0) + CountEv(ButLast(s), ev)

Attempts == CountEv(trace, "attempt")
Sleeps == CountEv(trace, "sleep")

\* ------------------------------------------------------- Database.connect

\* `if retry_count is None: retry_count = self.configs.connect_retry_count`
ResolveRetryCount(arg) == IF arg = None THEN cfgRetryCount ELSE arg[1]

RetryableOffByOne(rc) == rc > 1
\* `if retry_count:` -- any non-zero budget retries
Retryable(rc) == rc # 0

\* The outermost call: connect(retry_count=arg)
Connect(arg) ==
    /\ UNCHANGED <<cfgVars, crudVars>>
    /\ pos = "idle"
    /\ calls < MaxCalls
    /\ calls' = calls + 1
    /\ budget' = ResolveRetryCount(arg)
    /\ stack' = <<ResolveRetryCount(arg)>>
    /\ pos' = "try"
    /\ trace' = <<>>
    /\ results' = <<>>
    /\ caught' = 0
    /\ outcome' = "running"
    /\ raisedErr' = 0
    /\ lastOp' = "connect"
    /\ UNCHANGED <<cfgRetryCount, cfgRetryDelay, engine, tables, succeeded>>

\* `self.engine = create_engine(self.configs.dsn, **self.configs.other)`
CreateEngine(ok) ==
    /\ UNCHANGED <<cfgVars, crudVars>>
    /\ pos = "try"
    /\ trace' = Append(trace, AttemptEv)
    /\ IF ok
       THEN /\ engine' = <<calls, Attempts + 1>>
            /\ pos' = "create_db"
            /\ UNCHANGED <<results, caught>>
       ELSE /\ results' = Append(results, "engine_failed")
            /\ caught' = Attempts + 1
            /\ pos' = "except"
            /\ UNCHANGED engine
    /\ UNCHANGED <<cfgRetryCount, cfgRetryDelay, tables, stack, budget, outcome,
                   raisedErr, calls, succeeded, lastOp>>

SchemaStepSkipsCreateAll(ok) ==
    /\ UNCHANGED <<cfgVars, crudVars>>
    /\ pos = "create_db"
    /\ IF ok
       THEN /\ results' = Append(results, "ok")
            /\ pos' = "return"
            /\ UNCHANGED <<caught, tables>>
       ELSE /\ results' = Append(results, "schema_failed")
            /\ caught' = Attempts
            /\ pos' = "except"
            /\ UNCHANGED tables
    /\ UNCHANGED <<cfgRetryCount, cfgRetryDelay, engine, stack, budget, trace,
                   outcome, raisedErr, calls, succeeded, lastOp>>

\* `self.create_db()` inside the try block: SQLModel.metadata.create_all(self.engine)
SchemaStep(ok) ==
    /\ UNCHANGED <<cfgVars, crudVars>>
    /\ pos = "create_db"
    /\ IF ok
       THEN /\ tables' = TRUE
            /\ results' = Append(results, "ok")
            /\ pos' = "return"
            /\ UNCHANGED caught
       ELSE /\ results' = Append(results, "schema_failed")
            /\ caught' = Attempts
            /\ pos' = "except"
            /\ UNCHANGED tables
    /\ UNCHANGED <<cfgRetryCount, cfgRetryDelay, engine, stack, budget, trace,
                   outcome, raisedErr, calls, succeeded, lastOp>>

\* except branch, budget left: warn, time.sleep(delay), self.connect(retry_count - 1)
Retry ==
    /\ UNCHANGED <<cfgVars, crudVars>>
    /\ pos = "except"
    /\ Retryable(Last(stack))
    /\ Len(stack) < MaxDepth
    /\ trace' = Append(trace, SleepEv(cfgRetryDelay))
    /\ stack' = Append(stack, Last(stack) - 1)
    /\ pos' = "try"
    /\ caught' = 0
    /\ UNCHANGED <<cfgRetryCount, cfgRetryDelay, engine, tables, budget, results,
                   outcome, raisedErr, calls, succeeded, lastOp>>

\* except branch, no budget: `raise e`. Every outer frame is inside its own except
\* block at the recursive call, so nothing catches it and it reaches the caller.
Raise ==
    /\ UNCHANGED <<cfgVars, crudVars>>
    /\ pos = "except"
    /\ ~Retryable(Last(stack))
    /\ stack' = <<>>
    /\ pos' = "idle"
    /\ outcome' = "raised"
    /\ raisedErr' = caught
    /\ caught' = 0
    /\ UNCHANGED <<cfgRetryCount, cfgRetryDelay, engine, tables, budget, trace,
                   results, calls, succeeded, lastOp>>

\* `return self`: the innermost frame returns; an outer frame resumes after the
\* recursive call in its except block and falls through to its own `return self`.
Return ==
    /\ UNCHANGED <<cfgVars, crudVars>>
    /\ pos = "return"
    /\ stack' = ButLast(stack)
    /\ IF Len(stack) = 1
       THEN /\ pos' = "idle"
            /\ outcome' = "returned"
            /\ succeeded' = TRUE
       ELSE /\ pos' = "return"
            /\ UNCHANGED <<outcome, succeeded>>
    /\ UNCHANGED <<cfgRetryCount, cfgRetryDelay, engine, tables, budget, trace,
                   results, caught, raisedErr, calls, lastOp>>

\* Database.create_db called directly; create_all(None) raises and changes nothing
CreateDb(ok) ==
    /\ UNCHANGED <<cfgVars, crudVars>>
    /\ pos = "idle"
    /\ outcome # "none"
    /\ tables' = IF ok /\ engine # None THEN TRUE ELSE tables
    /\ lastOp' = "create_db"
    /\ UNCHANGED <<cfgRetryCount, cfgRetryDelay, engine, stack, pos, budget, trace,
                   results, caught, outcome, raisedErr, calls, succeeded>>

\* Database.drop_db
DropDb(ok) ==
    /\ UNCHANGED <<cfgVars, crudVars>>
    /\ pos = "idle"
    /\ outcome # "none"
    /\ tables' = IF ok /\ engine # None THEN FALSE ELSE tables
    /\ lastOp' = "drop_db"
    /\ UNCHANGED <<cfgRetryCount, cfgRetryDelay, engine, stack, pos, budget, trace,
                   results, caught, outcome, raisedErr, calls, succeeded>>

\* Database.__init__: `self.engine = None`
InitConnect ==
    /\ cfgRetryCount \in RetryBudgets
    /\ cfgRetryDelay \in RetryDelays
    /\ engine = None
    /\ tables \in BOOLEAN
    /\ stack = <<>>
    /\ pos = "idle"
    /\ budget = 0
    /\ trace = <<>>
    /\ results = <<>>
    /\ caught = 0
    /\ outcome = "none"
    /\ raisedErr = 0
    /\ calls = 0
    /\ succeeded = FALSE
    /\ lastOp = "init"

NextConnect ==
    \/ \E arg \in {None} \cup {Some(n) : n \in RetryBudgets} : Connect(arg)
    \/ \E ok \in BOOLEAN : CreateEngine(ok)
    \/ \E ok \in BOOLEAN : SchemaStep(ok)
    \/ Retry
    \/ Raise
    \/ Return
    \/ \E ok \in BOOLEAN : CreateDb(ok)
    \/ \E ok \in BOOLEAN : DropDb(ok)

\* The wrapper when only the other components are exercised.
ConnectAtRest ==
    /\ cfgRetryCount = 0
    /\ cfgRetryDelay = 0
    /\ engine = None
    /\ tables = FALSE
    /\ stack = <<>>
    /\ pos = "idle"
    /\ budget = 0
    /\ trace = <<>>
    /\ results = <<>>
    /\ caught = 0
    /\ outcome = "none"
    /\ raisedErr = 0
    /\ calls = 0
    /\ succeeded = FALSE
    /\ lastOp = "init"

\* ------------------------------------------------------- configs/configs.py

Undefined == "<undefined>"

\* A value with its Python type: str, int, bool, secret (SecretStr), dict.
V(ty, v) == [ty |-> ty, v |-> v]
Unset == V("unset", "")
NoDefault == V("undefined", "")
EmptyDict == V("dict", "{}")

Ok(val) == [ok |-> TRUE, err |-> "", val |-> val]
Err(name) == [ok |-> FALSE, err |-> name, val |-> Unset]

EnvVars == {"HOST", "PORT", "ENABLE_CORS", "DB_DIALECT", "DB_USERNAME", "DB_PASSWORD",
            "DB_HOST", "DB_PORT", "DB_NAME", "SECRET_KEY"}

NoVars == [k \in EnvVars |-> Undefined]

\* Strings int() accepts, and str.lower() on the strings the model uses.
IntStrings == {"0", "1", "8000", "8080", "5432", "5433"}
Lower(s) == IF s \in {"True", "TRUE"} THEN "true"
            ELSE IF s \in {"False", "FALSE"} THEN "false" ELSE s

\* starlette Config._perform_cast with cast = str, int or bool
PerformCast(value, cast) ==
    CASE cast = "str" -> Ok(V("str", value.v))
      [] cast = "int" ->
            IF value.ty = "int" THEN Ok(value)
            ELSE IF value.ty = "bool" THEN Ok(V("int", IF value.v = "True" THEN "1" ELSE "0"))
            ELSE IF value.v \in IntStrings THEN Ok(V("int", value.v))
            ELSE Err("ValueError")
      [] cast = "bool" ->
            IF value.ty = "str"
            THEN IF Lower(value.v) \in {"true", "1"} THEN Ok(V("bool", "True"))
                 ELSE IF Lower(value.v) \in {"false", "0"} THEN Ok(V("bool", "False"))
                 ELSE Err("ValueError")
            ELSE IF value.ty = "bool" THEN Ok(value)
            ELSE Ok(V("bool", IF value.v \in {"0", ""} THEN "False" ELSE "True"))
      [] OTHER -> Ok(value)

\* starlette Config lookup order: os.environ, then the .env file's values
EnvLookup(key) ==
    IF procEnv[key] # Undefined THEN procEnv[key] ELSE fileValues[key]

EnvGetDefaultFirst(key, default, cast) ==
    IF default # NoDefault THEN PerformCast(default, cast)
    ELSE IF EnvLookup(key) # Undefined THEN PerformCast(V("str", EnvLookup(key)), cast)
    ELSE Err("KeyError")

EnvGetMissingIsEmpty(key, default, cast) ==
    IF EnvLookup(key) # Undefined THEN PerformCast(V("str", EnvLookup(key)), cast)
    ELSE IF default # NoDefault THEN PerformCast(default, cast)
    ELSE Ok(V("str", ""))

\* context.env.get(key, default=..., cast=...)
EnvGet(key, default, cast) ==
    IF EnvLookup(key) # Undefined THEN PerformCast(V("str", EnvLookup(key)), cast)
    ELSE IF default # NoDefault THEN PerformCast(default, cast)
    ELSE Err("KeyError")

\* One keyword argument of a from_context call: the field it sets, the environment
\* variable ("" if none), the key path in the structured file ("" if none), the
\* cast, whether the value becomes a SecretStr, whether the field has a default of
\* its own, and the error a missing file key gives.
Arg(field, env, yml, cast, secret, optional, missing) ==
    [field |-> field, env |-> env, yml |-> yml, cast |-> cast, secret |-> secret,
     optional |-> optional, missing |-> missing]

ServerArgs == <<
    Arg("server.host", "HOST", "server.host", "str", FALSE, FALSE, "KeyError"),
    Arg("server.port", "PORT", "server.port", "int", FALSE, FALSE, "KeyError"),
    Arg("server.enable_cors", "ENABLE_CORS", "server.enable_cors", "bool", FALSE, FALSE,
        "KeyError") >>

DatabaseArgs == <<
    Arg("db.dialect", "DB_DIALECT", "db.dialect", "str", FALSE, FALSE, "KeyError"),
    Arg("db.username", "DB_USERNAME", "", "str", TRUE, FALSE, "KeyError"),
    Arg("db.password", "DB_PASSWORD", "", "str", TRUE, FALSE, "KeyError"),
    Arg("db.host", "DB_HOST", "db.host", "str", FALSE, FALSE, "KeyError"),
    Arg("db.port", "DB_PORT", "db.port", "int", FALSE, FALSE, "KeyError"),
    Arg("db.name", "DB_NAME", "db.name", "str", FALSE, FALSE, "KeyError"),
    Arg("db.connect_retry_count", "", "db.connect_retry.count", "", FALSE, FALSE,
        "KeyError"),
    Arg("db.connect_retry_delay", "", "db.connect_retry.delay", "", FALSE, FALSE,
        "KeyError"),
    Arg("db.other", "", "db.other", "", FALSE, TRUE, "") >>

SecurityArgs == <<
    Arg("security.secret_key", "SECRET_KEY", "", "str", TRUE, FALSE, "KeyError"),
    Arg("security.algorithm", "", "security.algorithm", "", FALSE, FALSE,
        "ValidationError"),
    Arg("security.access_token_expires_hours", "", "security.access_token_expires_hours",
        "", FALSE, FALSE, "ValidationError"),
    Arg("security.token_name", "", "security.token_name", "", FALSE, FALSE,
        "ValidationError"),
    Arg("security.crypt_context", "", "security.crypt_context", "", FALSE, TRUE, ""),
    Arg("security.oauth2", "", "security.oauth2", "", FALSE, TRUE, "") >>

ValidationArgs == <<
    Arg("validation.email", "", "validation.email", "", FALSE, FALSE, "ValidationError"),
    Arg("validation.password", "", "validation.password", "", FALSE, FALSE,
        "ValidationError") >>

FieldNames ==
    {ServerArgs[i].field : i \in 1..Len(ServerArgs)}
    \cup {DatabaseArgs[i].field : i \in 1..Len(DatabaseArgs)}
    \cup {SecurityArgs[i].field : i \in 1..Len(SecurityArgs)}
    \cup {ValidationArgs[i].field : i \in 1..Len(ValidationArgs)}

\* The value one keyword argument evaluates to. The default expression
\* context.yml[...] is evaluated before env.get is called, so a key missing from
\* the file raises even when the environment variable is set.
Resolve(a) ==
    IF a.env # ""
    THEN IF a.yml # "" /\ a.yml \notin DOMAIN ymlVals THEN Err(a.missing)
         ELSE LET r == EnvGet(a.env, IF a.yml # "" THEN ymlVals[a.yml] ELSE NoDefault,
                              a.cast)
              IN IF r.ok /\ a.secret THEN Ok(V("secret", r.val.v)) ELSE r
    ELSE IF a.yml \in DOMAIN ymlVals THEN Ok(ymlVals[a.yml])
    ELSE IF a.optional THEN Ok(EmptyDict)
    ELSE Err(a.missing)

\* The keyword arguments of one from_context call, evaluated left to right; the
\* first one that raises ends the call.
RECURSIVE ResolveAll(_, _)
ResolveAll(args, acc) ==
    IF args = <<>> THEN [ok |-> TRUE, err |-> "", vals |-> acc]
    ELSE LET r == Resolve(Head(args))
         IN IF r.ok
            THEN ResolveAll(Tail(args), [acc EXCEPT ![Head(args).field] = r.val])
            ELSE [ok |-> FALSE, err |-> r.err, vals |-> acc]

HandlerKeys == {"console", "file", "errors"}
NoHandlers == [k \in HandlerKeys |-> <<>>]

\* The structured files the model loads.
YmlDocs == {"A", "B", "C", "D"}

YmlValsOf(doc) ==
    LET base ==
           ("server.host" :> V("str", "0.0.0.0")) @@ ("server.port" :> V("int", "8000"))
        @@ ("server.enable_cors" :> V("bool", "False"))
        @@ ("db.dialect" :> V("str", "postgresql")) @@ ("db.host" :> V("str", "localhost"))
        @@ ("db.port" :> V("int", "5432")) @@ ("db.name" :> V("str", "app"))
        @@ ("db.connect_retry.count" :> V("int", "1"))
        @@ ("db.connect_retry.delay" :> V("int", "1"))
        @@ ("security.algorithm" :> V("str", "HS256"))
        @@ ("security.access_token_expires_hours" :> V("int", "1"))
        @@ ("security.token_name" :> V("str", "access_token"))
        @@ ("validation.email" :> V("dict", "{rules}"))
        @@ ("validation.password" :> V("dict", "{rules}"))
    IN CASE doc = "A" -> base @@ ("db.other" :> V("dict", "{pool_size}"))
         [] doc = "B" ->
               ("server.host" :> V("str", "127.0.0.1")) @@ ("server.enable_cors" :> V("bool", "True"))
            @@ ("db.port" :> V("int", "5433")) @@ ("security.oauth2" :> V("dict", "{tokenUrl}"))
            @@ base
         [] doc = "C" -> [k \in DOMAIN base \ {"security.token_name"} |-> base[k]]
         [] doc = "D" -> [k \in DOMAIN base \ {"server.port"} |-> base[k]]

YmlLogsOf(doc) == IF doc = "B" THEN <<"var", "log">> ELSE <<"logs">>

YmlHasHandlersOf(doc) == doc # "C"

YmlHandlersOf(doc) ==
    CASE doc = "A" -> ("console" :> <<>>) @@ ("file" :> <<"app.log">>) @@ ("errors" :> <<>>)
      [] doc = "B" -> ("console" :> <<>>) @@ ("file" :> <<"app.log">>)
                      @@ ("errors" :> <<"errors", "err.log">>)
      [] OTHER -> NoHandlers

Fail(at, name) ==
    /\ step' = "failed"
    /\ failedAt' = at
    /\ error' = name

LoadContextEnvFirst ==
    /\ step = "new"
    /\ envInit' = TRUE
    /\ fileValues' = IF envFileExists THEN dotEnv ELSE NoVars
    /\ IF ~packageDirExists
       THEN /\ Fail("context", "FileNotFoundError")
            /\ UNCHANGED <<ymlOpened, ymlVals, hasHandlers, handlers>>
       ELSE IF ymlFile = "missing"
       THEN /\ Fail("context", "FileNotFoundError")
            /\ UNCHANGED <<ymlOpened, ymlVals, hasHandlers, handlers>>
       ELSE IF ymlFile = "malformed"
       THEN /\ ymlOpened' = TRUE
            /\ Fail("context", "YAMLError")
            /\ UNCHANGED <<ymlVals, hasHandlers, handlers>>
       ELSE /\ ymlOpened' = TRUE
            /\ ymlVals' = YmlValsOf(ymlFile)
            /\ hasHandlers' = YmlHasHandlersOf(ymlFile)
            /\ handlers' = YmlHandlersOf(ymlFile)
            /\ step' = "context"
            /\ UNCHANGED <<error, failedAt>>
    /\ UNCHANGED <<packageDirExists, envFileExists, dotEnv, procEnv, ymlFile, logsPath,
                   fields, built, logsDirCreated, loggingApplied, afterFirst>>
    /\ UNCHANGED <<connVars, crudVars>>

\* Context.load, called first by Configs.__init__
LoadContext ==
    /\ step = "new"
    /\ IF ~packageDirExists
       THEN /\ Fail("context", "FileNotFoundError")
            /\ UNCHANGED <<envInit, fileValues, ymlOpened, ymlVals, hasHandlers, handlers>>
       ELSE /\ envInit' = TRUE
            /\ fileValues' = IF envFileExists THEN dotEnv ELSE NoVars
            /\ IF ymlFile = "missing"
               THEN /\ Fail("context", "FileNotFoundError")
                    /\ UNCHANGED <<ymlOpened, ymlVals, hasHandlers, handlers>>
               ELSE IF ymlFile = "malformed"
               THEN /\ ymlOpened' = TRUE
                    /\ Fail("context", "YAMLError")
                    /\ UNCHANGED <<ymlVals, hasHandlers, handlers>>
               ELSE /\ ymlOpened' = TRUE
                    /\ ymlVals' = YmlValsOf(ymlFile)
                    /\ hasHandlers' = YmlHasHandlersOf(ymlFile)
                    /\ handlers' = YmlHandlersOf(ymlFile)
                    /\ step' = "context"
                    /\ UNCHANGED <<error, failedAt>>
    /\ UNCHANGED <<packageDirExists, envFileExists, dotEnv, procEnv, ymlFile, logsPath,
                   fields, built, logsDirCreated, loggingApplied, afterFirst>>
    /\ UNCHANGED <<connVars, crudVars>>

\* One `self.x = XConfigs.from_context(self._context)` line of Configs.__init__
Build(name, args) ==
    /\ LET r == ResolveAll(args, fields)
       IN IF r.ok
          THEN /\ fields' = r.vals
               /\ built' = Append(built, name)
               /\ step' = name
               /\ UNCHANGED <<error, failedAt>>
          ELSE /\ Fail(name, r.err)
               /\ UNCHANGED <<fields, built>>
    /\ UNCHANGED <<packageDirExists, envFileExists, dotEnv, procEnv, ymlFile, envInit,
                   fileValues, ymlOpened, ymlVals, logsPath, hasHandlers, handlers,
                   logsDirCreated, loggingApplied, afterFirst>>
    /\ UNCHANGED <<connVars, crudVars>>

\* ServerConfigs.from_context
BuildServer ==
    /\ step = "context"
    /\ Build("server", ServerArgs)

\* DatabaseConfigs.from_context
BuildDatabase ==
    /\ step = "server"
    /\ Build("db", DatabaseArgs)

\* SecurityConfigs.from_context
BuildSecurity ==
    /\ step = "db"
    /\ Build("security", SecurityArgs)

\* ValidationConfigs.from_context
BuildValidation ==
    /\ step = "security"
    /\ Build("validation", ValidationArgs)

\* PathConfigs.from_context: logs comes from the file alone, then
\* obj.logs.mkdir(parents=True, exist_ok=True)
BuildPath ==
    /\ step = "validation"
    /\ logsPath' = YmlLogsOf(ymlFile)
    /\ logsDirCreated' = TRUE
    /\ built' = Append(built, "path")
    /\ step' = "path"
    /\ UNCHANGED <<packageDirExists, envFileExists, dotEnv, procEnv, ymlFile, envInit,
                   fileValues, ymlOpened, ymlVals, hasHandlers, handlers, fields,
                   loggingApplied, afterFirst, error, failedAt>>
    /\ UNCHANGED <<connVars, crudVars>>

\* f'{self.path.logs}/{handler_fname}'
Rewritten(fname) == logsPath \o fname

\* The body of Configs.configure_logging: the rewrite of every handler that has a
\* filename, then logging.config.dictConfig
ConfigureLoggingBody ==
    /\ handlers' = IF hasHandlers
                   THEN [k \in HandlerKeys |->
                            IF handlers[k] # <<>> THEN Rewritten(handlers[k])
                            ELSE handlers[k]]
                   ELSE handlers
    /\ loggingApplied' = loggingApplied + 1
    /\ afterFirst' = IF loggingApplied = 0 THEN handlers' ELSE afterFirst

\* `self.configure_logging()`, the last line of Configs.__init__
FinishInit ==
    /\ step = "path"
    /\ ConfigureLoggingBody
    /\ step' = "ready"
    /\ UNCHANGED <<packageDirExists, envFileExists, dotEnv, procEnv, ymlFile, envInit,
                   fileValues, ymlOpened, ymlVals, logsPath, hasHandlers, fields, built,
                   logsDirCreated, error, failedAt>>
    /\ UNCHANGED <<connVars, crudVars>>

\* Configs.configure_logging called again on the constructed object
ConfigureLogging ==
    /\ step = "ready"
    /\ loggingApplied < MaxLoggingRuns
    /\ ConfigureLoggingBody
    /\ UNCHANGED <<packageDirExists, envFileExists, dotEnv, procEnv, ymlFile, step,
                   envInit, fileValues, ymlOpened, ymlVals, logsPath, hasHandlers, fields,
                   built, logsDirCreated, error, failedAt>>
    /\ UNCHANGED <<connVars, crudVars>>

\* The environments the model draws from.
ProcEnvs ==
    {[k \in EnvVars |->
        CASE k = "HOST" -> h [] k = "PORT" -> p [] k = "ENABLE_CORS" -> c
          [] k = "DB_PORT" -> dp [] k = "DB_USERNAME" -> u [] k = "DB_PASSWORD" -> pw
          [] k = "SECRET_KEY" -> sk [] OTHER -> Undefined] :
        h \in {Undefined, "example.org"}, p \in {Undefined, "8080", "http"},
        c \in {Undefined, "True", "0", "yes"}, dp \in {Undefined, "5433"},
        u \in {Undefined, "admin"}, pw \in {Undefined, "hunter2"},
        sk \in {Undefined, "s3cret"}}

DotEnvs ==
    {NoVars,
     [k \in EnvVars |->
        CASE k = "HOST" -> "dotenv.local" [] k = "DB_DIALECT" -> "sqlite"
          [] k = "DB_HOST" -> "db" [] k = "DB_NAME" -> "prod"
          [] k = "DB_USERNAME" -> "fileuser" [] OTHER -> Undefined]}

InitConfigs ==
    /\ packageDirExists \in BOOLEAN
    /\ envFileExists \in BOOLEAN
    /\ dotEnv \in DotEnvs
    /\ envFileExists \/ dotEnv = NoVars
    /\ procEnv \in ProcEnvs
    /\ ymlFile \in {"missing", "malformed"} \cup YmlDocs
    /\ step = "new"
    /\ envInit = FALSE
    /\ fileValues = NoVars
    /\ ymlOpened = FALSE
    /\ ymlVals = [k \in {} |-> Unset]
    /\ logsPath = <<>>
    /\ hasHandlers = FALSE
    /\ handlers = NoHandlers
    /\ fields = [f \in FieldNames |-> Unset]
    /\ built = <<>>
    /\ logsDirCreated = FALSE
    /\ loggingApplied = 0
    /\ afterFirst = NoHandlers
    /\ error = ""
    /\ failedAt = ""

\* The Configs part when only the other components are exercised.
ConfigsAtRest ==
    /\ packageDirExists = TRUE
    /\ envFileExists = FALSE
    /\ dotEnv = NoVars
    /\ procEnv = NoVars
    /\ ymlFile = "A"
    /\ step = "new"
    /\ envInit = FALSE
    /\ fileValues = NoVars
    /\ ymlOpened = FALSE
    /\ ymlVals = [k \in {} |-> Unset]
    /\ logsPath = <<>>
    /\ hasHandlers = FALSE
    /\ handlers = NoHandlers
    /\ fields = [f \in FieldNames |-> Unset]
    /\ built = <<>>
    /\ logsDirCreated = FALSE
    /\ loggingApplied = 0
    /\ afterFirst = NoHandlers
    /\ error = ""
    /\ failedAt = ""

NextConfigs ==
    \/ LoadContext
    \/ BuildServer
    \/ BuildDatabase
    \/ BuildSecurity
    \/ BuildValidation
    \/ BuildPath
    \/ FinishInit
    \/ ConfigureLogging

\* ------------------------------------------- orm/database.py: CRUD operations

\* Entity objects. Two entity types share primary keys, so the type matters to a
\* read: object e is of type ModelOf(e) with primary key PkOf(e).
Entities == {1, 2, 3}
ModelOf(e) == IF e % 2 = 1 THEN "A" ELSE "B"
PkOf(e) == (e + 1) \div 2
Models == {"A", "B"}
Pks == {PkOf(e) : e \in Entities}
\* The values the one plain attribute of an entity takes.
Vals == {0, 1}
\* The offset and limit arguments of a read; 0 stands for None as well, both false.
Offsets == {0, 1}
Limits == {0, 1}

Lists == UNION {[1..n -> Entities] : n \in 0..MaxLen}

\* The session and the store as one value, with the session calls made so far
\* by the running operation and whether one of them raised.
State(e, m, d) == [est |-> e, mem |-> m, db |-> d, log |-> <<>>, raised |-> FALSE]

Logged(S, call) == [S EXCEPT !.log = Append(@, call)]

\* session.add(instance): a transient object becomes pending, an object marked
\* for deletion is kept after all, an object already in the session stays as it
\* is, and an object whose row was deleted is refused.
SessionAdd(S, e) ==
    IF S.raised THEN S
    ELSE CASE S.est[e] = "transient" -> Logged([S EXCEPT !.est[e] = "pending"], "add")
           [] S.est[e] = "deleted" -> Logged([S EXCEPT !.est[e] = "persistent"], "add")
           [] S.est[e] = "detached" -> [Logged(S, "add") EXCEPT !.raised = TRUE]
           [] OTHER -> Logged(S, "add")

\* session.delete(instance): marks a persisted object for deletion; an object
\* that was never persisted is refused.
SessionDelete(S, e) ==
    IF S.raised THEN S
    ELSE CASE S.est[e] \in {"transient", "pending"} ->
                [Logged(S, "delete") EXCEPT !.raised = TRUE]
           [] S.est[e] \in {"persistent", "detached"} ->
                Logged([S EXCEPT !.est[e] = "deleted"], "delete")
           [] OTHER -> Logged(S, "delete")

\* What a flush writes: pending objects are inserted, changed attributes of
\* persistent objects are updated, objects marked for deletion are deleted.
Flushed(S) ==
    [S EXCEPT
        !.db = [e \in Entities |->
                  CASE S.est[e] = "pending" -> [present |-> TRUE, val |-> S.mem[e].val]
                    [] S.est[e] = "persistent" -> [S.db[e] EXCEPT !.val = S.mem[e].val]
                    [] S.est[e] = "deleted" -> [present |-> FALSE, val |-> 0]
                    [] OTHER -> S.db[e]],
        !.est = [e \in Entities |->
                  CASE S.est[e] = "pending" -> "persistent"
                    [] S.est[e] = "deleted" -> "detached"
                    [] OTHER -> S.est[e]]]

\* session.commit()
SessionCommit(S) == IF S.raised THEN S ELSE Logged(Flushed(S), "commit")

\* session.refresh(instance): the object's attributes are loaded from its row,
\* the fields the database generated included.
SessionRefresh(S, e) ==
    IF S.raised THEN S
    ELSE IF S.est[e] = "persistent"
    THEN Logged([S EXCEPT !.mem[e] = [val |-> S.db[e].val, gen |-> "db"]], "refresh")
    ELSE [Logged(S, "refresh") EXCEPT !.raised = TRUE]

RECURSIVE AddAll(_, _)
\* session.add_all(instances)
AddAll(S, l) == IF l = <<>> THEN S ELSE AddAll(SessionAdd(S, Head(l)), Tail(l))

RECURSIVE RefreshAll(_, _)
\* `for instance in instances: session.refresh(instance)`
RefreshAll(S, l) == IF l = <<>> THEN S ELSE RefreshAll(SessionRefresh(S, Head(l)), Tail(l))

RECURSIVE DeleteAll(_, _)
\* `for instance in instances: session.delete(instance)`
DeleteAll(S, l) == IF l = <<>> THEN S ELSE DeleteAll(SessionDelete(S, Head(l)), Tail(l))

\* Database.create
Create(S, e, refresh) ==
    LET c == SessionCommit(SessionAdd(S, e))
    IN IF refresh THEN SessionRefresh(c, e) ELSE c

CreateManyCommitsFirstOnly(S, l, refresh) ==
    LET c == IF l = <<>> THEN SessionCommit(S)
             ELSE AddAll(SessionCommit(SessionAdd(S, Head(l))), Tail(l))
    IN IF refresh THEN RefreshAll(c, l) ELSE c

\* Database.create_many
CreateMany(S, l, refresh) ==
    LET c == SessionCommit(AddAll(S, l))
    IN IF refresh THEN RefreshAll(c, l) ELSE c

\* Database.update
Update(S, e) == Create(S, e, TRUE)

\* Database.update_many
UpdateMany(S, l) == CreateMany(S, l, TRUE)

\* Database.delete
Delete(S, e) == SessionCommit(SessionDelete(S, e))

\* Database.delete_many
DeleteMany(S, l) == SessionCommit(DeleteAll(S, l))

\* Truth value of the `query` argument. None is false. A comparison built with ==
\* on a mapped column is an expression object whose truth value compares the two
\* operands themselves (the column and the bound literal), which are never the same
\* object, so it is false; one built with != is true for the same reason. (The
\* annotation says tuple, but where(query) takes the argument whole and accepts
\* no tuple, so a predicate is passed as the expression itself.)
Truthy(q) == q.op = "ne"

Matches(q, e) == IF q.op = "eq" THEN PkOf(e) = q.pk ELSE PkOf(e) # q.pk

NoQuery == [op |-> "none", pk |-> 0]
Queries == {NoQuery} \cup {[op |-> o, pk |-> p] : o \in {"eq", "ne"}, p \in Pks}

RECURSIVE Ascending(_)
Ascending(set) ==
    IF set = {} THEN <<>>
    ELSE LET m == CHOOSE x \in set : \A y \in set : x <= y
         IN <<m>> \o Ascending(set \ {m})

\* Database.read: the rows of `model` the session sees (it flushes before it
\* queries), filtered by `query` when `if query:` holds, then offset and limit
\* when they are non-zero.
Read(S, q, model, offset, limit) ==
    LET view == Flushed(S).db
        rows == Ascending({e \in Entities :
                    /\ view[e].present
                    /\ ModelOf(e) = model
                    /\ (Truthy(q) => Matches(q, e))})
        skipped == IF offset # 0 THEN SubSeq(rows, offset + 1, Len(rows)) ELSE rows
    IN IF limit # 0 /\ limit < Len(skipped) THEN SubSeq(skipped, 1, limit) ELSE skipped

\* The single-entity operation applied to the elements of a list one after the
\* other; the caller's loop ends at the first call that raises. `log` collects the
\* session calls of all the calls made.
RECURSIVE EachInTurn(_, _, _)
EachInTurn(op, S, l) ==
    IF l = <<>> \/ S.raised THEN S
    ELSE EachInTurn(op,
                    CASE op = "create" -> Create(S, Head(l), FALSE)
                      [] op = "create_refresh" -> Create(S, Head(l), TRUE)
                      [] op = "update" -> Update(S, Head(l))
                      [] op = "delete" -> Delete(S, Head(l)),
                    Tail(l))

Current == State(est, mem, db)

\* The session and the store after an operation that ended in R.
Becomes(R) ==
    /\ est' = R.est
    /\ mem' = R.mem
    /\ db' = R.db
    /\ opRaised' = R.raised
    /\ nops' = nops + 1
    /\ UNCHANGED <<connVars, cfgVars>>

DoCreate(e, refresh) ==
    /\ nops < MaxOps
    /\ opName' = "create"
    /\ Becomes(Create(Current, e, refresh))
    /\ UNCHANGED readResult

DoCreateMany(l, refresh) ==
    /\ nops < MaxOps
    /\ opName' = "create_many"
    /\ Becomes(CreateMany(Current, l, refresh))
    /\ UNCHANGED readResult

DoUpdate(e) ==
    /\ nops < MaxOps
    /\ opName' = "update"
    /\ Becomes(Update(Current, e))
    /\ UNCHANGED readResult

DoUpdateMany(l) ==
    /\ nops < MaxOps
    /\ opName' = "update_many"
    /\ Becomes(UpdateMany(Current, l))
    /\ UNCHANGED readResult

DoDelete(e) ==
    /\ nops < MaxOps
    /\ opName' = "delete"
    /\ Becomes(Delete(Current, e))
    /\ UNCHANGED readResult

DoDeleteMany(l) ==
    /\ nops < MaxOps
    /\ opName' = "delete_many"
    /\ Becomes(DeleteMany(Current, l))
    /\ UNCHANGED readResult

DoRead(q, model, offset, limit) ==
    /\ nops < MaxOps
    /\ opName' = "read"
    /\ readResult' = Read(Current, q, model, offset, limit)
    /\ Becomes(Current)

\* The caller assigns an attribute of an entity object it holds.
Mutate(e, v) ==
    /\ nops < MaxOps
    /\ est[e] # "detached"
    /\ mem[e].val # v
    /\ opName' = "mutate"
    /\ Becomes([Current EXCEPT !.mem[e].val = v])
    /\ UNCHANGED readResult

InitCrud ==
    /\ est = [e \in Entities |-> "transient"]
    /\ mem = [e \in Entities |-> [val |-> 0, gen |-> "unset"]]
    /\ db = [e \in Entities |-> [present |-> FALSE, val |-> 0]]
    /\ opName = "init"
    /\ opRaised = FALSE
    /\ readResult = <<>>
    /\ nops = 0

\* The session when only the other components are exercised.
CrudAtRest ==
    /\ est = [e \in Entities |-> "transient"]
    /\ mem = [e \in Entities |-> [val |-> 0, gen |-> "unset"]]
    /\ db = [e \in Entities |-> [present |-> FALSE, val |-> 0]]
    /\ opName = "init"
    /\ opRaised = FALSE
    /\ readResult = <<>>
    /\ nops = 0

NextCrud ==
    \/ \E e \in Entities, refresh \in BOOLEAN : DoCreate(e, refresh)
    \/ \E l \in Lists, refresh \in BOOLEAN : DoCreateMany(l, refresh)
    \/ \E e \in Entities : DoUpdate(e)
    \/ \E l \in Lists : DoUpdateMany(l)
    \/ \E e \in Entities : DoDelete(e)
    \/ \E l \in Lists : DoDeleteMany(l)
    \/ \E q \in Queries, model \in Models, offset \in Offsets, limit \in Limits :
          DoRead(q, model, offset, limit)
    \/ \E e \in Entities, v \in Vals : Mutate(e, v)

\* --------------------------------------------------------- specifications

Init ==
    /\ InitConnect
    /\ ConfigsAtRest
    /\ CrudAtRest

\* Database.connect, create_db and drop_db
Spec == Init /\ [][NextConnect]_vars

InitOfConfigs ==
    /\ InitConfigs
    /\ ConnectAtRest
    /\ CrudAtRest

\* Configs.__init__ and Configs.configure_logging
SpecConfigs == InitOfConfigs /\ [][NextConfigs]_vars

InitOfCrud ==
    /\ InitCrud
    /\ ConnectAtRest
    /\ ConfigsAtRest

\* The CRUD operations over one session
SpecCrud == InitOfCrud /\ [][NextCrud]_vars

\* ================================================================ claims
\* ---------------------------------------------------------------- connect

\* The trace alternates attempt, sleep, attempt, ..., every sleep lasting the
\* configured delay.
Alternates ==
    \A i \in 1..Len(trace) :
        IF i % 2 = 1 THEN trace[i] = AttemptEv ELSE trace[i] = SleepEv(cfgRetryDelay)

\* C1: when every attempt fails, connect with a retry budget N >= 0 (explicit or
\* from the configuration) raises after exactly N+1 attempts and N sleeps of the
\* configured delay, one sleep between two consecutive attempts, and the error
\* the caller gets is the one of the final attempt; with N = 0 there is one
\* attempt and no sleep.
C1_ExhaustedBudget ==
    (lastOp = "connect" /\ outcome = "raised" /\ budget >= 0) =>
        /\ Attempts = budget + 1
        /\ Sleeps = budget
        /\ Len(trace) = 2 * budget + 1
        /\ Alternates
        /\ Len(results) = budget + 1
        /\ \A i \in 1..Len(results) : results[i] # "ok"
        /\ raisedErr = budget + 1
        /\ stack = <<>>

C1_Witness ==
    /\ outcome = "raised"
    /\ budget = 2
    /\ budget = cfgRetryCount
    /\ Sleeps = 2
    /\ cfgRetryDelay = 1

\* C2: whenever no connect call is running, the engine is present only if some
\* connect call has succeeded: a connect that ends by raising leaves the wrapper
\* uninitialized, whichever step of the attempt failed.
C2_EngineOnlyAfterSuccess == (pos = "idle" /\ engine # None) => succeeded

\* C8: the number of nested connect calls never exceeds retry_count + 1 (one
\* frame for a budget below zero, which no reading of the bound can forbid).
C8_DepthBounded == Len(stack) <= (IF budget < 0 THEN 0 ELSE budget) + 1

\* C10: with budget N >= 0, if attempt k is the first on which engine creation
\* and schema creation both succeed, connect returns to the caller without
\* raising after exactly k attempts (k <= N+1) and k-1 sleeps, attempts nothing
\* further, and leaves the engine of attempt k in place with the schema ensured.
C10_RecoveredByRetry ==
    /\ \A i \in 1..(Len(results) - 1) : results[i] # "ok"
    /\ (outcome = "returned" /\ budget >= 0) =>
          /\ Attempts >= 1
          /\ Attempts <= budget + 1
          /\ Sleeps = Attempts - 1
          /\ Alternates
          /\ Len(results) = Attempts
          /\ results[Attempts] = "ok"
          /\ engine = <<calls, Attempts>>
          /\ raisedErr = 0
          /\ stack = <<>>
          /\ pos = "idle"
          /\ (lastOp = "connect" => tables)

C10_Witness ==
    /\ outcome = "returned"
    /\ lastOp = "connect"
    /\ budget = 2
    /\ Attempts = 3
    /\ results = <<"engine_failed", "schema_failed", "ok">>
    /\ tables
\* ---------------------------------------------------------------- configs

\* What the environment source holds for a variable: the process environment
\* first, then the .env file when there is one.
SourceValue(k) ==
    IF procEnv[k] # Undefined THEN procEnv[k]
    ELSE IF envFileExists THEN dotEnv[k] ELSE Undefined

Args == {ServerArgs[i] : i \in 1..Len(ServerArgs)}
        \cup {DatabaseArgs[i] : i \in 1..Len(DatabaseArgs)}
        \cup {SecurityArgs[i] : i \in 1..Len(SecurityArgs)}

\* HOST, PORT, ENABLE_CORS, DB_DIALECT, DB_HOST, DB_PORT, DB_NAME
Overridable == {a \in Args : a.env # "" /\ a.yml # ""}

\* C3: a second configure_logging on the same Configs object leaves every
\* handler's filename as the first run left it.
C3_RewriteIdempotent == (loggingApplied >= 2) => (handlers = afterFirst)

\* C4: a resolved field that has an environment variable equals the variable's
\* value cast to the declared type when the environment source holds the
\* variable, whatever the structured file says, and equals the structured file's
\* value at its key path when it does not.
C4_EnvOverridesFile ==
    \A a \in Overridable :
        (fields[a.field] # Unset) =>
            /\ fields[a.field].ty = a.cast
            /\ IF SourceValue(a.env) # Undefined
               THEN /\ PerformCast(V("str", SourceValue(a.env)), a.cast).ok
                    /\ fields[a.field] = PerformCast(V("str", SourceValue(a.env)), a.cast).val
               ELSE fields[a.field] = ymlVals[a.yml]

C4_Witness ==
    /\ "db" \in {built[i] : i \in 1..Len(built)}
    /\ procEnv["PORT"] = "8080"
    /\ ymlVals["server.port"] = V("int", "8000")
    /\ fields["server.port"] = V("int", "8080")
    /\ procEnv["ENABLE_CORS"] = "True"
    /\ ymlVals["server.enable_cors"] = V("bool", "False")
    /\ fields["server.enable_cors"] = V("bool", "True")
    /\ procEnv["HOST"] = "example.org"
    /\ dotEnv["HOST"] = "dotenv.local"
    /\ fields["server.host"] = V("str", "example.org")
    /\ fields["db.name"] = V("str", "prod")
    /\ SourceValue("DB_PORT") = Undefined
    /\ fields["db.port"] = V("int", "5432")

\* C5: with a base directory that does not exist, construction fails with the
\* path-not-found error in Context.load and nothing else has happened: no
\* environment source, no structured file opened, no sub-config built, no logs
\* directory, no logging configuration.
C5_MissingBaseDirFailsFirst ==
    (~packageDirExists) =>
        /\ step \in {"new", "failed"}
        /\ (step = "failed") => (error = "FileNotFoundError" /\ failedAt = "context")
        /\ ~envInit
        /\ ~ymlOpened
        /\ built = <<>>
        /\ \A f \in FieldNames : fields[f] = Unset
        /\ logsPath = <<>>
        /\ ~logsDirCreated
        /\ loggingApplied = 0

C5_Witness ==
    /\ ~packageDirExists
    /\ step = "failed"
    /\ envFileExists
    /\ ymlFile = "A"
    /\ SourceValue("SECRET_KEY") # Undefined

BuildOrder == <<"server", "db", "security", "validation", "path">>

\* C9: construction goes load Context, the five sub-configs in order, configure
\* logging, ready; and when DB_USERNAME, DB_PASSWORD or SECRET_KEY is absent from
\* the environment source, the from_context call that needs it raises, the object
\* never becomes ready and the logging configuration is never applied.
C9_OrderedAndFailFast ==
    /\ Len(built) <= Len(BuildOrder)
    /\ built = SubSeq(BuildOrder, 1, Len(built))
    /\ (built # <<>>) => (envInit /\ ymlOpened)
    /\ logsDirCreated <=> (Len(built) = Len(BuildOrder))
    /\ (loggingApplied > 0) <=> (step = "ready")
    /\ (step = "ready") => (built = BuildOrder)
    /\ (SourceValue("DB_USERNAME") = Undefined \/ SourceValue("DB_PASSWORD") = Undefined) =>
          /\ step \in {"new", "context", "server", "failed"}
          /\ (step = "failed" /\ failedAt = "db") => error = "KeyError"
          /\ Len(built) <= 1
    /\ (SourceValue("SECRET_KEY") = Undefined) =>
          /\ step \in {"new", "context", "server", "db", "failed"}
          /\ (step = "failed" /\ failedAt = "security") => error = "KeyError"
          /\ Len(built) <= 2

C9_Witness ==
    /\ SourceValue("SECRET_KEY") = Undefined
    /\ SourceValue("DB_USERNAME") = "fileuser"
    /\ SourceValue("DB_PASSWORD") = "hunter2"
    /\ step = "failed"
    /\ failedAt = "security"
    /\ error = "KeyError"
    /\ built = <<"server", "db">>
    /\ loggingApplied = 0

\* ------------------------------------------------------------------- CRUD

SameState(R, Q) == R.est = Q.est /\ R.mem = Q.mem /\ R.db = Q.db

BatchKinds == {"create_many", "create_many_refresh", "update_many", "delete_many"}

Batch(kind, S, l) ==
    CASE kind = "create_many" -> CreateMany(S, l, FALSE)
      [] kind = "create_many_refresh" -> CreateMany(S, l, TRUE)
      [] kind = "update_many" -> UpdateMany(S, l)
      [] kind = "delete_many" -> DeleteMany(S, l)

SingleOf(kind) ==
    CASE kind = "create_many" -> "create"
      [] kind = "create_many_refresh" -> "create_refresh"
      [] kind = "update_many" -> "update"
      [] kind = "delete_many" -> "delete"

Repeat(x, n) == [i \in 1..n |-> x]

\* Every element added to (deleted from) the session, then one commit, then the
\* refreshes if any.
OneCommitAfterAll(kind, l) ==
    Repeat(IF kind = "delete_many" THEN "delete" ELSE "add", Len(l))
    \o <<"commit">>
    \o (IF kind \in {"create_many_refresh", "update_many"} THEN Repeat("refresh", Len(l))
        ELSE <<>>)

\* The batch operation and the single-entity operation applied in turn agree on
\* the session and the store, and a batch that completes has committed once, after
\* all elements.
Agree(kind, l, B, Q) ==
    /\ SameState(B, Q)
    /\ (~B.raised) => (B.log = OneCommitAfterAll(kind, l))

C7_ReadFindsExactlyTheEntity ==
    \A e \in Entities :
        /\ (est[e] = "persistent" /\ db[e].present) =>
              Read(Current, [op |-> "eq", pk |-> PkOf(e)], ModelOf(e), 0, 0) = <<e>>
        /\ (est[e] = "detached") =>
              Read(Current, [op |-> "eq", pk |-> PkOf(e)], ModelOf(e), 0, 0) = <<>>

====
